---- MODULE Spec2Model ----
(***************************************************************************)
(* A model of amicleaner/fetch.py: the Fetcher and its six fetch           *)
(* operations, run against a remote account reached through two clients.   *)
(*                                                                         *)
(* Python values are modelled as follows.                                  *)
(*   - A dict (a record of a remote response) is a function whose DOMAIN   *)
(*     is the set of keys that are present; d.get(k, default) is Get.      *)
(*   - A list is a sequence.                                               *)
(*   - An element of a returned list is tagged with its Python type:       *)
(*     PyStr(s), PyNone, or a generator object PyGen(id, items), so that   *)
(*     a list of strings and a list of generator objects stay distinct.    *)
(*   - A call either returns a value or raises: an outcome records the     *)
(*     error raised ("" for none) and every remote call it issued.         *)
(***************************************************************************)
EXTENDS Naturals, Sequences, FiniteSets, TLC

VARIABLES
  fetcher,                \* the Fetcher object: self.ec2 and self.asg
  Images,                 \* remote: the images owned by the account
  Reservations,           \* remote: reservations, each a list of instances
  AutoScalingGroups,      \* remote: the scaling groups
  LaunchConfigurations,   \* remote: the launch configurations
  LaunchTemplates,        \* remote: the launch templates
  LaunchTemplateVersions, \* remote: the versions of every launch template
  emptyNamesMeansAll,     \* remote: whether an empty name filter is no filter
  returned,               \* per operation, the value its latest completed call returned
  last                    \* the latest call: operation, error raised, remote calls issued

remote == <<Images, Reservations, AutoScalingGroups, LaunchConfigurations,
            LaunchTemplates, LaunchTemplateVersions, emptyNamesMeansAll>>
vars == <<fetcher, remote, returned, last>>

(***************************************************************************)
(* Bounds of the model.                                                    *)
(***************************************************************************)
MaxGroups == 2
MaxGroupsAll == 1
MaxInstances == 2
MaxVersions == 2
MaxFail == 4

ImageIds == {"ami-A", "ami-B", "ami-C"}
LCNames == {"lc1", "lc2"}
LTNames == {"lt1", "lt2"}
TemplateImageIds == {"ami-D", "ami-E"}
Versions == {"1"}
InstanceStates == {"pending", "running", "shutting-down", "stopping", "stopped",
                   "terminated"}

(***************************************************************************)
(* Python values.                                                          *)
(***************************************************************************)
Has(d, k) == k \in DOMAIN d
Get(d, k, default) == IF Has(d, k) THEN d[k] ELSE default
EmptyDict == << >>

PyStr(s) == [t |-> "str", v |-> s]
PyNone == [t |-> "NoneType"]
PyGen(id, items) == [t |-> "generator", id |-> id, items |-> items]
\* d.get(k) of a key holding a string: the string, or None
PyGet(d, k) == IF Has(d, k) THEN PyStr(d[k]) ELSE PyNone
\* d.get(k, "") of a key holding a string
PyGetStr(d, k) == IF Has(d, k) THEN PyStr(d[k]) ELSE PyStr("")

Range(s) == {s[i] : i \in DOMAIN s}
Map(s, F(_)) == [i \in DOMAIN s |-> F(s[i])]

\* list(a_set): the iteration order of a set is fixed within one run
RECURSIVE SetToList(_)
SetToList(S) ==
  IF S = {} THEN << >>
  ELSE LET x == CHOOSE y \in S : TRUE IN <<x>> \o SetToList(S \ {x})

RECURSIVE Flatten(_)
Flatten(ss) == IF ss = << >> THEN << >> ELSE Head(ss) \o Flatten(Tail(ss))

(***************************************************************************)
(* Outcomes of a call, and the log of the remote calls it issued.          *)
(***************************************************************************)
RemoteQueryError == "RemoteQueryError"
AttributeError == "AttributeError"

\* the calls of `plan` issued when the failAt-th remote call fails (0: none fails)
Log(plan, failAt) ==
  LET n == IF failAt \in 1..Len(plan) THEN failAt ELSE Len(plan)
  IN [i \in 1..n |-> [api |-> plan[i], ok |-> i # failAt]]
Returns(plan, value) == [error |-> "", calls |-> Log(plan, 0), value |-> value]
Raises(error, plan, failAt) == [error |-> error, calls |-> Log(plan, failAt)]

(***************************************************************************)
(* The remote collaborator: the listing calls of the two clients.          *)
(***************************************************************************)
describe_images == Images

describe_instances(stateNames) ==
  LET Keep(i) == i["State"] \in Range(stateNames)
      kept == [r \in DOMAIN Reservations |->
                 [Instances |-> SelectSeq(Reservations[r]["Instances"], Keep)]]
      NonEmpty(r) == r["Instances"] # << >>
  IN SelectSeq(kept, NonEmpty)

describe_auto_scaling_groups == AutoScalingGroups

\* LaunchConfigurationNames omitted: every launch configuration
describe_launch_configurations == LaunchConfigurations

\* LaunchConfigurationNames=names
describe_launch_configurations_named(names) ==
  LET Named(lc) == lc["LaunchConfigurationName"] \in Range(names)
  IN IF names = << >> /\ emptyNamesMeansAll
     THEN LaunchConfigurations
     ELSE SelectSeq(LaunchConfigurations, Named)

describe_launch_templates == LaunchTemplates

describe_launch_template_versions(name) ==
  LET Of(v) == v["LaunchTemplateName"] = name
  IN SelectSeq(LaunchTemplateVersions, Of)

(***************************************************************************)
(* resources/models.py, AMI.object_with_json: the image record keyed by    *)
(* its identifier.                                                         *)
(***************************************************************************)
AMI_object_with_json(image_json) == [id |-> image_json["ImageId"]]

(***************************************************************************)
(* Generator objects.  A generator expression creates a new object, equal  *)
(* (==) to no other live object; the generators a caller still holds are   *)
(* those of the lists in `returned`.                                       *)
(***************************************************************************)
GenOps == {"fetch_unattached_lt", "fetch_zeroed_asg_lt"}
LiveIds ==
  UNION {{returned[op].value[i].id : i \in DOMAIN returned[op].value} :
           op \in {o \in GenOps : returned[o].done}}
RECURSIVE NthFree(_, _)
NthFree(n, from) ==
  IF from \in LiveIds THEN NthFree(n, from + 1)
  ELSE IF n = 1 THEN from ELSE NthFree(n - 1, from + 1)
\* the generator expression of lines 92-95 and 147-150, as the n-th object of a call
ImageIdGenerator(n, resp) ==
  LET ImageId(v) == PyGet(Get(v, "LaunchTemplateData", EmptyDict), "ImageId")
  IN PyGen(NthFree(n, 1), Map(resp, ImageId))

(***************************************************************************)
(* Fetcher.fetch_available_amis                                            *)
(***************************************************************************)
fetch_available_amis(failAt) ==
  LET plan == <<"ec2.describe_images">>
  IN IF failAt = 1 THEN Raises(RemoteQueryError, plan, failAt)
     ELSE LET my_custom_images == describe_images
              amis == Map(my_custom_images, AMI_object_with_json)
              Latest(id) == CHOOSE i \in DOMAIN amis :
                              /\ amis[i].id = id
                              /\ \A j \in DOMAIN amis : amis[j].id = id => j <= i
          IN Returns(plan, [id \in {amis[i].id : i \in DOMAIN amis} |-> amis[Latest(id)]])

(***************************************************************************)
(* Fetcher.fetch_unattached_lc                                             *)
(***************************************************************************)
fetch_unattached_lc(failAt) ==
  LET plan == <<"asg.describe_auto_scaling_groups",
                "asg.describe_launch_configurations",
                "asg.describe_launch_configurations">>
      LcName(d) == PyGetStr(d, "LaunchConfigurationName")
      ImageId(lc) == PyGet(lc, "ImageId")
      Name(s) == s.v
  IN IF failAt \in 1..3 THEN Raises(RemoteQueryError, plan, failAt)
     ELSE LET used_lc == Range(Map(describe_auto_scaling_groups, LcName))
              all_lcs == Range(Map(describe_launch_configurations, LcName))
              unused_lcs == SetToList(all_lcs \ used_lc)
              resp == describe_launch_configurations_named(Map(unused_lcs, Name))
          IN Returns(plan, Map(resp, ImageId))

(***************************************************************************)
(* Fetcher.fetch_zeroed_asg_lc                                             *)
(***************************************************************************)
fetch_zeroed_asg_lc(failAt) ==
  LET plan == <<"asg.describe_auto_scaling_groups",
                "asg.describe_launch_configurations">>
      Zeroed(asg) == /\ Get(asg, "DesiredCapacity", 0) = 0
                     /\ Len(Get(asg, "LaunchConfigurationNames", << >>)) > 0
      LcName(asg) == Get(asg, "LaunchConfigurationName", "")
      ImageId(lc) == PyGetStr(lc, "ImageId")
  IN IF failAt \in 1..2 THEN Raises(RemoteQueryError, plan, failAt)
     ELSE LET zeroed_lcs == Map(SelectSeq(describe_auto_scaling_groups, Zeroed), LcName)
              resp == describe_launch_configurations_named(zeroed_lcs)
          IN Returns(plan, Map(resp, ImageId))

(***************************************************************************)
(* Fetcher.fetch_instances                                                 *)
(***************************************************************************)
\* mutant: the filter also asks for terminated instances
InstanceStateFilter_with_terminated ==
  <<"pending", "running", "shutting-down", "stopping", "stopped", "terminated">>

InstanceStateFilter == <<"pending", "running", "shutting-down", "stopping", "stopped">>

\* mutant: the image identifier is read under a key no instance has
fetch_instances_wrong_key(failAt) ==
  LET plan == <<"ec2.describe_instances">>
      ImageId(i) == PyGet(i, "ImageID")
      Instances(r) == Map(Get(r, "Instances", << >>), ImageId)
  IN IF failAt = 1 THEN Raises(RemoteQueryError, plan, failAt)
     ELSE LET resp == describe_instances(InstanceStateFilter)
          IN Returns(plan, Flatten(Map(resp, Instances)))

fetch_instances(failAt) ==
  LET plan == <<"ec2.describe_instances">>
      ImageId(i) == PyGet(i, "ImageId")
      Instances(r) == Map(Get(r, "Instances", << >>), ImageId)
  IN IF failAt = 1 THEN Raises(RemoteQueryError, plan, failAt)
     ELSE LET resp == describe_instances(InstanceStateFilter)
          IN Returns(plan, Flatten(Map(resp, Instances)))

(***************************************************************************)
(* Fetcher.getLaunchTemplate / getLaunchTemplateName /                     *)
(* getLaunchTemplateVersion.  A helper gives a value or raises: None.get   *)
(* is an AttributeError.                                                   *)
(***************************************************************************)
Gives(v) == [raised |-> FALSE, value |-> v]
Throws == [raised |-> TRUE]

getLaunchTemplate(asg) ==
  IF Has(asg, "LaunchTemplate") THEN Gives(asg["LaunchTemplate"])
  ELSE IF ~Has(asg, "MixedInstancesPolicy") THEN Throws
  ELSE IF Has(asg["MixedInstancesPolicy"], "LaunchTemplate")
       THEN Gives(asg["MixedInstancesPolicy"]["LaunchTemplate"])
  ELSE Gives(EmptyDict)

getLaunchTemplateName(lt) ==
  IF Has(lt, "LaunchTemplateName") THEN Gives(PyStr(lt["LaunchTemplateName"]))
  ELSE IF ~Has(lt, "LaunchTemplateSpecification") THEN Throws
  ELSE IF Has(lt["LaunchTemplateSpecification"], "LaunchTemplateName")
       THEN Gives(PyStr(lt["LaunchTemplateSpecification"]["LaunchTemplateName"]))
  ELSE Gives(PyStr(""))

getLaunchTemplateVersion(lt) ==
  IF Has(lt, "LaunchTemplateVersion") THEN Gives(PyStr(lt["LaunchTemplateVersion"]))
  ELSE IF ~Has(lt, "LaunchTemplateSpecification") THEN Throws
  ELSE IF Has(lt["LaunchTemplateSpecification"], "Version")
       THEN Gives(PyStr(lt["LaunchTemplateSpecification"]["Version"]))
  ELSE Gives(PyStr(""))

(***************************************************************************)
(* Fetcher.fetch_unattached_lt                                             *)
(***************************************************************************)
\* mutant: a failed listing of versions is swallowed and the images collected so
\* far are returned
fetch_unattached_lt_partial(failAt) ==
  LET head == <<"asg.describe_auto_scaling_groups", "ec2.describe_launch_templates">>
      UsedName(asg) == PyGet(Get(asg, "LaunchTemplate", EmptyDict), "LaunchTemplateName")
      LtName(lt) == PyGetStr(lt, "LaunchTemplateName")
  IN IF failAt \in 1..2 THEN Raises(RemoteQueryError, head, failAt)
     ELSE LET used_lt == Range(Map(describe_auto_scaling_groups, UsedName))
              all_lts == Range(Map(describe_launch_templates, LtName))
              unused_lts == SetToList(all_lts \ used_lt)
              plan == head \o [i \in DOMAIN unused_lts |->
                                 "ec2.describe_launch_template_versions"]
              amis == [i \in DOMAIN unused_lts |->
                         ImageIdGenerator(i, describe_launch_template_versions(unused_lts[i].v))]
          IN IF failAt \in 1..Len(plan)
             THEN [error |-> "", calls |-> Log(plan, failAt),
                   value |-> SubSeq(amis, 1, failAt - 3)]
             ELSE Returns(plan, amis)

fetch_unattached_lt(failAt) ==
  LET head == <<"asg.describe_auto_scaling_groups", "ec2.describe_launch_templates">>
      UsedName(asg) == PyGet(Get(asg, "LaunchTemplate", EmptyDict), "LaunchTemplateName")
      LtName(lt) == PyGetStr(lt, "LaunchTemplateName")
  IN IF failAt \in 1..2 THEN Raises(RemoteQueryError, head, failAt)
     ELSE LET used_lt == Range(Map(describe_auto_scaling_groups, UsedName))
              all_lts == Range(Map(describe_launch_templates, LtName))
              unused_lts == SetToList(all_lts \ used_lt)
              plan == head \o [i \in DOMAIN unused_lts |->
                                 "ec2.describe_launch_template_versions"]
              amis == [i \in DOMAIN unused_lts |->
                         ImageIdGenerator(i, describe_launch_template_versions(unused_lts[i].v))]
          IN IF failAt \in 1..Len(plan) THEN Raises(RemoteQueryError, plan, failAt)
             ELSE Returns(plan, amis)

(***************************************************************************)
(* Fetcher.fetch_zeroed_asg_lt                                             *)
(***************************************************************************)
fetch_zeroed_asg_lt(failAt) ==
  LET first == <<"asg.describe_auto_scaling_groups">>
      head == Append(first, "ec2.describe_launch_templates")
      Zeroed(asg) == Get(asg, "DesiredCapacity", 0) = 0
      Value(r) == r.value
      Raised(rs) == \E i \in DOMAIN rs : rs[i].raised
  IN IF failAt = 1 THEN Raises(RemoteQueryError, first, failAt)
     ELSE LET zeroed_lts == Map(SelectSeq(describe_auto_scaling_groups, Zeroed),
                                getLaunchTemplate)
          IN IF Raised(zeroed_lts) THEN Raises(AttributeError, first, 0)
     ELSE LET zeroed_lt_names == Map(Map(zeroed_lts, Value), getLaunchTemplateName)
          IN IF Raised(zeroed_lt_names) THEN Raises(AttributeError, first, 0)
     ELSE LET zeroed_lt_versions == Map(Map(zeroed_lts, Value), getLaunchTemplateVersion)
          IN IF Raised(zeroed_lt_versions) THEN Raises(AttributeError, first, 0)
     ELSE LET names == Map(zeroed_lt_names, Value)
              plan == head \o [i \in DOMAIN names |->
                                 "ec2.describe_launch_template_versions"]
              amis == [i \in DOMAIN names |->
                         ImageIdGenerator(i, describe_launch_template_versions(names[i].v))]
          IN IF failAt \in 1..Len(plan) THEN Raises(RemoteQueryError, plan, failAt)
             ELSE Returns(plan, amis)

(***************************************************************************)
(* Fetcher.__init__, with both clients injected.                           *)
(***************************************************************************)
Fetcher_init == [ec2 |-> "ec2", asg |-> "autoscaling"]

Ops == {"fetch_available_amis", "fetch_unattached_lc", "fetch_unattached_lt",
        "fetch_zeroed_asg_lc", "fetch_zeroed_asg_lt", "fetch_instances"}

\* a call of `op` with outcome `out`: the caller keeps the value of a call that returns
Call(op, out) ==
  /\ last' = [op |-> op, error |-> out.error, calls |-> out.calls]
  /\ returned' = IF out.error = ""
                 THEN [returned EXCEPT ![op] = [done |-> TRUE, value |-> out.value]]
                 ELSE returned
  /\ UNCHANGED <<fetcher, remote>>

Fail == 0..MaxFail

FetchAvailableAmis == \E f \in Fail : Call("fetch_available_amis", fetch_available_amis(f))
FetchUnattachedLc == \E f \in Fail : Call("fetch_unattached_lc", fetch_unattached_lc(f))
FetchUnattachedLt == \E f \in Fail : Call("fetch_unattached_lt", fetch_unattached_lt(f))
FetchZeroedAsgLc == \E f \in Fail : Call("fetch_zeroed_asg_lc", fetch_zeroed_asg_lc(f))
FetchZeroedAsgLt == \E f \in Fail : Call("fetch_zeroed_asg_lt", fetch_zeroed_asg_lt(f))
FetchInstances == \E f \in Fail : Call("fetch_instances", fetch_instances(f))

InitCaller ==
  /\ fetcher = Fetcher_init
  /\ returned = [op \in Ops |-> [done |-> FALSE]]
  /\ last = [op |-> "", error |-> "", calls |-> << >>]

(***************************************************************************)
(* The accounts the model runs against.                                    *)
(***************************************************************************)
SeqsUpTo(S, n) == UNION {[1..k -> S] : k \in 0..n}

\* images: a listing of distinct identifiers
ImageListings == {SetToList({[ImageId |-> a] : a \in ids}) : ids \in SUBSET ImageIds}

\* instances: with or without an image identifier, in any lifecycle state
InstanceRecs == [State : InstanceStates] \cup [State : InstanceStates, ImageId : ImageIds]
OneEach(is) == [k \in DOMAIN is |-> [Instances |-> <<is[k]>>]]
AllInOne(is) == IF is = << >> THEN << >> ELSE <<[Instances |-> is]>>
ReservationListings(recs, n) ==
  UNION {{OneEach(is), AllInOne(is)} : is \in SeqsUpTo(recs, n)}

\* launch configurations: each name exists or not, with its image
LcListings(images) ==
  LET Choice == [LCNames -> images \cup {""}]
      Lc(c, n) == [LaunchConfigurationName |-> n, ImageId |-> c[n]]
      Exists(lc) == lc["ImageId"] # ""
  IN {SelectSeq(Map(SetToList(LCNames), LAMBDA n : Lc(c, n)), Exists) : c \in Choice}

\* scaling groups that use launch configurations, or nothing
Capacities == {0, 2}
LcGroupRecs ==
  [DesiredCapacity : Capacities]
    \cup [DesiredCapacity : Capacities, LaunchConfigurationName : LCNames]
    \cup [LaunchConfigurationName : LCNames]
    \cup {[DesiredCapacity |-> c, LaunchConfigurationName |-> n,
           LaunchConfigurationNames |-> <<n>>] : c \in Capacities, n \in LCNames}

\* launch-template references: directly on the group, or under a mixed-instances policy
DirectRefs ==
  [LaunchTemplateName : LTNames, Version : Versions]
    \cup [LaunchTemplateName : LTNames, LaunchTemplateVersion : Versions]
    \cup [LaunchTemplateName : LTNames]
Specifications == [LaunchTemplateName : LTNames, Version : Versions]
                    \cup [LaunchTemplateName : LTNames]
MixedPolicies ==
  {[LaunchTemplate |-> [LaunchTemplateSpecification |-> s]] : s \in Specifications}
    \cup {[InstancesDistribution |-> "default"]}
LtGroupRecs ==
  [DesiredCapacity : Capacities]
    \cup [DesiredCapacity : Capacities, LaunchTemplate : DirectRefs]
    \cup [DesiredCapacity : Capacities, MixedInstancesPolicy : MixedPolicies]

\* launch templates: each name exists or not, with one to MaxVersions versions
TemplateData == [ImageId : TemplateImageIds]
VersionData ==
  UNION {[1..k -> TemplateData] : k \in 1..MaxVersions}
    \cup [1..1 -> {[InstanceType |-> "t3.micro"]}]
\* the first template name takes any of `data`, the others one version at most
TemplateChoices(data) ==
  LET first == CHOOSE n \in LTNames : TRUE
      one == {<< >>} \cup [1..1 -> {[ImageId |-> CHOOSE a \in TemplateImageIds : TRUE]}]
  IN {c \in [LTNames -> data \cup one] : \A n \in LTNames \ {first} : c[n] \in one}
TemplatesOf(c) ==
  LET Exists(n) == c[n] # << >>
  IN Map(SelectSeq(SetToList(LTNames), Exists), LAMBDA n : [LaunchTemplateName |-> n])
VersionsOf(c) ==
  LET Of(n) == [i \in DOMAIN c[n] |->
                  [LaunchTemplateName |-> n, VersionNumber |-> i,
                   LaunchTemplateData |-> c[n][i]]]
  IN Flatten(Map(SetToList(LTNames), Of))

(***************************************************************************)
(* Instances only: fetch_instances against every listing of instances.     *)
(***************************************************************************)
InitInstances ==
  /\ InitCaller
  /\ Images = << >>
  /\ Reservations \in ReservationListings(InstanceRecs, MaxInstances)
  /\ AutoScalingGroups = << >>
  /\ LaunchConfigurations = << >>
  /\ LaunchTemplates = << >>
  /\ LaunchTemplateVersions = << >>
  /\ emptyNamesMeansAll = TRUE
NextInstances == FetchInstances
SpecInstances == InitInstances /\ [][NextInstances]_vars

(***************************************************************************)
(* Launch configurations: the two operations that read them.               *)
(***************************************************************************)
InitLc ==
  /\ InitCaller
  /\ Images = << >>
  /\ Reservations = << >>
  /\ AutoScalingGroups \in SeqsUpTo(LcGroupRecs, MaxGroups)
  /\ LaunchConfigurations \in LcListings(ImageIds)
  /\ LaunchTemplates = << >>
  /\ LaunchTemplateVersions = << >>
  /\ emptyNamesMeansAll \in BOOLEAN
NextLc == FetchUnattachedLc \/ FetchZeroedAsgLc
SpecLc == InitLc /\ [][NextLc]_vars

(***************************************************************************)
(* Launch templates: the two operations that read them.                    *)
(***************************************************************************)
InitLt ==
  /\ InitCaller
  /\ Images = << >>
  /\ Reservations = << >>
  /\ AutoScalingGroups \in SeqsUpTo(LtGroupRecs, MaxGroups)
  /\ LaunchConfigurations = << >>
  /\ \E c \in TemplateChoices(VersionData) :
       /\ LaunchTemplates = TemplatesOf(c)
       /\ LaunchTemplateVersions = VersionsOf(c)
  /\ emptyNamesMeansAll = TRUE
NextLt == FetchUnattachedLt \/ FetchZeroedAsgLt
SpecLt == InitLt /\ [][NextLt]_vars

(***************************************************************************)
(* What the claims speak of.                                               *)
(***************************************************************************)
ActiveStates == InstanceStates \ {"terminated"}
AllInstances == Flatten(Map(Reservations, LAMBDA r : r["Instances"]))
\* the image identifiers that instances in a state of `states` carry
ImagesOfInstancesIn(states) ==
  {AllInstances[k]["ImageId"] :
     k \in {j \in DOMAIN AllInstances :
              AllInstances[j]["State"] \in states /\ Has(AllInstances[j], "ImageId")}}
Strs(ids) == {PyStr(a) : a \in ids}

\* C5: fetch_instances returns the image of every instance in an active state and
\* of no instance that is terminated (unless an active instance carries the same
\* image): its state filter is every state but "terminated".
C5_TerminatedExcluded ==
  returned["fetch_instances"].done =>
    LET amis == Range(returned["fetch_instances"].value)
    IN /\ Strs(ImagesOfInstancesIn(ActiveStates)) \subseteq amis
       /\ amis \cap Strs(ImageIds) \subseteq Strs(ImagesOfInstancesIn(ActiveStates))
       /\ Range(InstanceStateFilter) = ActiveStates

\* C5 witness: a terminated instance whose image is left out, beside an active one
\* whose image is returned
C5_Witness ==
  /\ returned["fetch_instances"].done
  /\ \E a \in ImagesOfInstancesIn({"terminated"}) :
       PyStr(a) \notin Range(returned["fetch_instances"].value)
  /\ \E a \in ImagesOfInstancesIn(ActiveStates) :
       PyStr(a) \in Range(returned["fetch_instances"].value)

\* C10: an instance with no image identifier is skipped: every element of the
\* result of fetch_instances is the image identifier of a listed instance that is
\* not terminated, never a null or empty placeholder.
C10_NoPlaceholder ==
  returned["fetch_instances"].done =>
    Range(returned["fetch_instances"].value) \subseteq Strs(ImagesOfInstancesIn(ActiveStates))

\* the names of the launch configurations that exist, and those a group refers to
AllLcNames == {LaunchConfigurations[k]["LaunchConfigurationName"] :
                 k \in DOMAIN LaunchConfigurations}
UsedLcNames(groups) ==
  {AutoScalingGroups[k]["LaunchConfigurationName"] :
     k \in {j \in groups : Has(AutoScalingGroups[j], "LaunchConfigurationName")}}
ImagesOfLcs(names) ==
  {LaunchConfigurations[k]["ImageId"] :
     k \in {j \in DOMAIN LaunchConfigurations :
              LaunchConfigurations[j]["LaunchConfigurationName"] \in names}}
ZeroGroups == {k \in DOMAIN AutoScalingGroups :
                 Get(AutoScalingGroups[k], "DesiredCapacity", 0) = 0}

\* C1: fetch_unattached_lc returns, as a set, exactly the images of the launch
\* configurations named in all - used, the empty set when all - used is empty.
C1_UnattachedLc ==
  returned["fetch_unattached_lc"].done =>
    Range(returned["fetch_unattached_lc"].value)
      = Strs(ImagesOfLcs(AllLcNames \ UsedLcNames(DOMAIN AutoScalingGroups)))

\* C2: fetch_zeroed_asg_lc returns the image of a launch configuration if and only
\* if a scaling group with desired capacity 0 refers to that launch configuration.
C2_ZeroedLc ==
  returned["fetch_zeroed_asg_lc"].done =>
    Range(returned["fetch_zeroed_asg_lc"].value) = Strs(ImagesOfLcs(UsedLcNames(ZeroGroups)))

\* the names of the launch templates that exist, and those the direct
\* launch-template field of a group refers to
AllLtNames == {LaunchTemplates[k]["LaunchTemplateName"] : k \in DOMAIN LaunchTemplates}
DirectlyUsedLtNames ==
  {AutoScalingGroups[k]["LaunchTemplate"]["LaunchTemplateName"] :
     k \in {j \in DOMAIN AutoScalingGroups :
              /\ Has(AutoScalingGroups[j], "LaunchTemplate")
              /\ Has(AutoScalingGroups[j]["LaunchTemplate"], "LaunchTemplateName")}}
\* the image identifiers of all the versions of the templates named
ImagesOfLts(names) ==
  {LaunchTemplateVersions[k]["LaunchTemplateData"]["ImageId"] :
     k \in {j \in DOMAIN LaunchTemplateVersions :
              /\ LaunchTemplateVersions[j]["LaunchTemplateName"] \in names
              /\ Has(LaunchTemplateVersions[j]["LaunchTemplateData"], "ImageId")}}

\* C6: fetch_unattached_lt returns the image identifier of every version of every
\* template that no group uses directly, and what it returns are those image
\* identifiers.
C6_UnattachedLt ==
  returned["fetch_unattached_lt"].done =>
    LET amis == Range(returned["fetch_unattached_lt"].value)
        images == Strs(ImagesOfLts(AllLtNames \ DirectlyUsedLtNames))
    IN images \subseteq amis /\ amis \subseteq images \cup {PyNone}

\* a group carrying the reference (name, version) in its launch-template field
CarriesDirectly(asg, name, version) ==
  /\ Has(asg, "LaunchTemplate")
  /\ Get(asg["LaunchTemplate"], "LaunchTemplateName", "") = name
  /\ \/ Get(asg["LaunchTemplate"], "Version", "") = version
     \/ Get(asg["LaunchTemplate"], "LaunchTemplateVersion", "") = version
\* a group carrying the reference (name, version) under its mixed-instances policy
CarriesNested(asg, name, version) ==
  /\ Has(asg, "MixedInstancesPolicy")
  /\ Has(asg["MixedInstancesPolicy"], "LaunchTemplate")
  /\ LET lt == asg["MixedInstancesPolicy"]["LaunchTemplate"]
     IN /\ Has(lt, "LaunchTemplateSpecification")
        /\ Get(lt["LaunchTemplateSpecification"], "LaunchTemplateName", "") = name
        /\ Get(lt["LaunchTemplateSpecification"], "Version", "") = version
\* getLaunchTemplate, then getLaunchTemplateName and getLaunchTemplateVersion
Resolve(asg) ==
  LET lt == getLaunchTemplate(asg)
  IN IF lt.raised THEN [raised |-> TRUE]
     ELSE LET name == getLaunchTemplateName(lt.value)
              version == getLaunchTemplateVersion(lt.value)
          IN IF name.raised \/ version.raised THEN [raised |-> TRUE]
             ELSE [raised |-> FALSE, name |-> name.value, version |-> version.value]

\* C4: a group carrying a launch-template name and version directly and a group
\* carrying the same name and version under a mixed-instances policy resolve to the
\* same name and version, and neither resolution raises.
C4_DualShape ==
  last.op = "fetch_zeroed_asg_lt" =>
    \A i, j \in DOMAIN AutoScalingGroups : \A name \in LTNames, version \in Versions :
      /\ CarriesDirectly(AutoScalingGroups[i], name, version)
      /\ CarriesNested(AutoScalingGroups[j], name, version)
      => /\ ~Resolve(AutoScalingGroups[i]).raised
         /\ ~Resolve(AutoScalingGroups[j]).raised
         /\ Resolve(AutoScalingGroups[i]) = Resolve(AutoScalingGroups[j])

(***************************************************************************)
(* The reference resolver: the catalog, then the three sources of          *)
(* references, one after the other; the first call that raises ends it.    *)
(* `failAt` is the remote call of the whole resolution that fails.         *)
(***************************************************************************)
Outcome(op, failAt) ==
  CASE op = "fetch_available_amis" -> fetch_available_amis(failAt)
    [] op = "fetch_unattached_lc" -> fetch_unattached_lc(failAt)
    [] op = "fetch_unattached_lt" -> fetch_unattached_lt(failAt)
    [] op = "fetch_zeroed_asg_lc" -> fetch_zeroed_asg_lc(failAt)
    [] op = "fetch_zeroed_asg_lt" -> fetch_zeroed_asg_lt(failAt)
    [] op = "fetch_instances" -> fetch_instances(failAt)

ResolveOrder == <<"fetch_available_amis", "fetch_instances", "fetch_zeroed_asg_lc",
                  "fetch_zeroed_asg_lt">>

\* the outcomes of the calls of `ops` in turn, up to the first that raises; `failAt`
\* counts the remote calls from the first call of `ops` on
RECURSIVE InTurn(_, _)
InTurn(ops, failAt) ==
  IF ops = << >> THEN << >>
  ELSE LET out == Outcome(Head(ops), failAt)
           n == Len(out.calls)
       IN IF out.error # "" THEN <<out>>
          ELSE <<out>> \o InTurn(Tail(ops), IF failAt > n THEN failAt - n ELSE 0)

Resolution(outs) ==
  /\ last' = [op |-> ResolveOrder[Len(outs)], error |-> outs[Len(outs)].error,
              calls |-> outs[Len(outs)].calls]
  /\ returned' = [op \in Ops |->
                    IF \E i \in DOMAIN outs : ResolveOrder[i] = op /\ outs[i].error = ""
                    THEN [done |-> TRUE,
                          value |-> outs[CHOOSE i \in DOMAIN outs : ResolveOrder[i] = op].value]
                    ELSE returned[op]]
  /\ UNCHANGED <<fetcher, remote>>

ResolveCandidates == \E failAt \in Fail : Resolution(InTurn(ResolveOrder, failAt))

Resolved == \A i \in DOMAIN ResolveOrder : returned[ResolveOrder[i]].done
catalogImageIds == DOMAIN returned["fetch_available_amis"].value
referencedImageIds ==
  Range(returned["fetch_instances"].value)
    \cup Range(returned["fetch_zeroed_asg_lc"].value)
    \cup Range(returned["fetch_zeroed_asg_lt"].value)
candidateImageIds == {a \in catalogImageIds : PyStr(a) \notin referencedImageIds}

CatalogListings == {SetToList({[ImageId |-> a] : a \in ids}) :
                      ids \in {ImageIds, ImageIds \ {"ami-C"}}}
CandidateInstanceRecs ==
  {[State |-> "running", ImageId |-> "ami-A"],
   [State |-> "running", ImageId |-> "ami-C"],
   [State |-> "terminated", ImageId |-> "ami-C"]}
CandidateGroupRecs ==
  {[DesiredCapacity |-> 2, LaunchConfigurationName |-> "lc1"],
   [DesiredCapacity |-> 0, LaunchConfigurationName |-> "lc1"],
   [DesiredCapacity |-> 0,
    LaunchTemplate |-> [LaunchTemplateName |-> "lt1", LaunchTemplateVersion |-> "1"]]}
CandidateLcListings ==
  {<< >>} \cup {<<[LaunchConfigurationName |-> "lc1", ImageId |-> a]>> :
                  a \in {"ami-B", "ami-C"}}

InitCandidates ==
  /\ InitCaller
  /\ Images \in CatalogListings
  /\ Reservations \in {OneEach(is) : is \in SeqsUpTo(CandidateInstanceRecs, MaxInstances)}
  /\ AutoScalingGroups \in SeqsUpTo(CandidateGroupRecs, MaxGroups)
  /\ LaunchConfigurations \in CandidateLcListings
  /\ LaunchTemplates = <<[LaunchTemplateName |-> "lt1"]>>
  /\ LaunchTemplateVersions =
       <<[LaunchTemplateName |-> "lt1", VersionNumber |-> 1,
          LaunchTemplateData |-> [ImageId |-> "ami-A"]]>>
  /\ emptyNamesMeansAll \in BOOLEAN
NextCandidates == ResolveCandidates
SpecCandidates == InitCandidates /\ [][NextCandidates]_vars

(***************************************************************************)
(* The six operations, called in any order, any number of times.           *)
(***************************************************************************)
GroupRecs ==
  {[DesiredCapacity |-> 0],
   [DesiredCapacity |-> 2, LaunchConfigurationName |-> "lc1"],
   [DesiredCapacity |-> 0,
    LaunchTemplate |-> [LaunchTemplateName |-> "lt1", LaunchTemplateVersion |-> "1"]],
   [DesiredCapacity |-> 0,
    MixedInstancesPolicy |->
      [LaunchTemplate |->
         [LaunchTemplateSpecification |-> [LaunchTemplateName |-> "lt1", Version |-> "1"]]]]}

Init ==
  /\ InitCaller
  /\ Images = SetToList({[ImageId |-> a] : a \in ImageIds})
  /\ Reservations = <<[Instances |-> <<[State |-> "running", ImageId |-> "ami-A"],
                                        [State |-> "terminated", ImageId |-> "ami-C"]>>]>>
  /\ AutoScalingGroups \in SeqsUpTo(GroupRecs, MaxGroupsAll)
  /\ LaunchConfigurations = <<[LaunchConfigurationName |-> "lc1", ImageId |-> "ami-B"]>>
  /\ LaunchTemplates = <<[LaunchTemplateName |-> "lt1"], [LaunchTemplateName |-> "lt2"]>>
  /\ LaunchTemplateVersions =
       <<[LaunchTemplateName |-> "lt1", VersionNumber |-> 1,
          LaunchTemplateData |-> [ImageId |-> "ami-D"]],
         [LaunchTemplateName |-> "lt1", VersionNumber |-> 2,
          LaunchTemplateData |-> [ImageId |-> "ami-E"]],
         [LaunchTemplateName |-> "lt2", VersionNumber |-> 1,
          LaunchTemplateData |-> [ImageId |-> "ami-D"]]>>
  /\ emptyNamesMeansAll \in BOOLEAN
Next ==
  \/ FetchAvailableAmis
  \/ FetchUnattachedLc
  \/ FetchUnattachedLt
  \/ FetchZeroedAsgLc
  \/ FetchZeroedAsgLt
  \/ FetchInstances
Spec == Init /\ [][Next]_vars

\* the groups with neither a launch configuration nor a launch template, direct or
\* under a mixed-instances policy
BareGroups ==
  {k \in DOMAIN AutoScalingGroups :
     /\ ~Has(AutoScalingGroups[k], "LaunchConfigurationName")
     /\ ~Has(AutoScalingGroups[k], "LaunchTemplate")
     /\ \/ ~Has(AutoScalingGroups[k], "MixedInstancesPolicy")
        \/ ~Has(AutoScalingGroups[k]["MixedInstancesPolicy"], "LaunchTemplate")}
GroupOps == {"fetch_zeroed_asg_lc", "fetch_zeroed_asg_lt", "fetch_unattached_lc",
             "fetch_unattached_lt"}

\* C3: with a group that has neither a launch configuration nor a launch template
\* in the listing, each of the four operations that read the groups completes
\* without raising, and that group adds no entry: fetch_zeroed_asg_lt returns one
\* entry for each other group of desired capacity 0.
C3_MissingReference ==
  (BareGroups # {} /\ last.op \in GroupOps) =>
    /\ last.error # AttributeError
    /\ (last.op = "fetch_zeroed_asg_lt" /\ last.error = "") =>
         Len(returned["fetch_zeroed_asg_lt"].value) = Cardinality(ZeroGroups \ BareGroups)

\* C8: when a remote call of a fetch operation fails, that call is the last one the
\* operation issues, the failure reaches the caller as it is, the operation returns
\* nothing, and the results the caller holds from earlier calls stay as they are.
C8_FailurePropagates ==
  [][\A k \in DOMAIN last'.calls :
       ~last'.calls[k].ok =>
         /\ k = Len(last'.calls)
         /\ last'.error = RemoteQueryError
         /\ returned' = returned]_vars

\* C8 witness: an operation stopped by the failure of its third remote call or a
\* later one, while the caller holds the result of another operation
C8_Witness ==
  /\ last.error = RemoteQueryError
  /\ Len(last.calls) >= 3
  /\ ~last.calls[Len(last.calls)].ok
  /\ \E op \in Ops \ {last.op} : returned[op].done

\* C9: no sequence of fetch operations changes the remote account or the Fetcher,
\* and an operation called again returns a result equal to the one it returned
\* before.
C9_Idempotent ==
  [][/\ remote' = remote
     /\ fetcher' = fetcher
     /\ \A op \in Ops :
          (returned[op].done /\ returned'[op].done) =>
            returned'[op].value = returned[op].value]_vars

\* the scenario: the catalog is A, B, C; the active instances carry A; the one
\* scaling group has desired capacity 2 and a launch configuration carrying B
Scenario ==
  /\ {Images[k]["ImageId"] : k \in DOMAIN Images} = {"ami-A", "ami-B", "ami-C"}
  /\ ImagesOfInstancesIn(ActiveStates) = {"ami-A"}
  /\ Len(AutoScalingGroups) = 1
  /\ Get(AutoScalingGroups[1], "DesiredCapacity", 0) = 2
  /\ Has(AutoScalingGroups[1], "LaunchConfigurationName")
  /\ Len(LaunchConfigurations) = 1
  /\ AllLcNames = UsedLcNames({1})
  /\ ImagesOfLcs(AllLcNames) = {"ami-B"}
\* no active instance, launch configuration or launch-template version carries `a`
Unreferenced(a) ==
  /\ a \notin ImagesOfInstancesIn(ActiveStates)
  /\ a \notin ImagesOfLcs(AllLcNames)
  /\ a \notin ImagesOfLts(AllLtNames)
ReferencedNeverCandidate ==
  /\ \A a \in ImagesOfInstancesIn(ActiveStates) : a \notin candidateImageIds
  /\ \A a \in catalogImageIds : Unreferenced(a) => a \in candidateImageIds

\* C7: the candidates are the catalog minus what fetch_instances,
\* fetch_zeroed_asg_lc and fetch_zeroed_asg_lt return; in the scenario they are
\* {C}; an image an active instance carries is never a candidate and an image of
\* the catalog that nothing refers to always is.
C7_Scenario ==
  Resolved =>
    /\ Scenario => candidateImageIds = {"ami-C"}
    /\ ReferencedNeverCandidate

\* C7 as amended: in the scenario the candidates are {C} when the listing of launch
\* configurations answers an empty name filter with every configuration, and
\* {B, C} when it answers it with none; the rest as claimed.
C7_ScenarioAmended ==
  Resolved =>
    /\ Scenario => candidateImageIds = (IF emptyNamesMeansAll THEN {"ami-C"}
                                        ELSE {"ami-B", "ami-C"})
    /\ ReferencedNeverCandidate

\* C7 witness: the scenario resolved, with B left among the candidates
C7_Witness ==
  /\ Resolved
  /\ Scenario
  /\ candidateImageIds = {"ami-B", "ami-C"}

====
